---- MODULE Spec2Model ----
(***************************************************************************)
(* Quest Network API (src/main.py): the owner ledger (users collection),   *)
(* the campaign registry (games collection) and the quest state machine    *)
(* (quests collection), with the request handlers as actions.              *)
(*                                                                         *)
(* Scheduling, for one server process.  Handlers declared "async def"      *)
(* (register_game, check_traffic) run on the event loop: their store       *)
(* calls block it, so two of them interleave only at an await.  Handlers   *)
(* declared "def" run in the thread pool, where the store calls of one     *)
(* request interleave with those of any other.  An action named after a    *)
(* handler is that handler run without another request in between.         *)
(* CheckTrafficBegin/CheckTrafficResume split check_traffic at its await   *)
(* (line 410), BuyBegin/BuyWrite split buy_visits between its reads and    *)
(* its updates, and DashBegin/DashWrite split get_dashboard between its    *)
(* read and its write.  The other thread-pool handlers are not split: a    *)
(* request is taken to finish within less than one dwell time.             *)
(***************************************************************************)
EXTENDS Integers, Sequences, FiniteSets, TLC

\* ---------------------------------------------------------------- bounds
MaxQuests == 2
MaxNow == 180
MaxInflight == 2
MaxVisits == 2
MaxStock == 30
MaxBalance == 200

\* ------------------------------------------------------ program constants
STARTING_TEST_BALANCE == 500
AUTO_APPROVE_VISITS == 0
TTL_SECONDS == 86400
ARRIVAL_GRACE == 15
DEFAULT_VISIT_COST == 8
DEFAULT_TIER == 1

TIER_CONFIG ==
    [t \in {1, 2, 3} |->
        CASE t = 1 -> [cost |-> 8,  time |-> 60,  payout |-> 6]
          [] t = 2 -> [cost |-> 15, time |-> 180, payout |-> 11]
          [] t = 3 -> [cost |-> 30, time |-> 300, payout |-> 22]]

\* TIER_CONFIG.get(tier, TIER_CONFIG[1])
TierInfo(tier) ==
    IF tier \in DOMAIN TIER_CONFIG THEN TIER_CONFIG[tier] ELSE TIER_CONFIG[1]

\* ------------------------------------------------------------ value sets
Owners == {1, 2}
Places == {1, 2, 3}
Players == {1, 2}
NoOwner == 0
NoTime == 0 - 1

Min(a, b) == IF a < b THEN a ELSE b
Max(a, b) == IF a > b THEN a ELSE b

\* ----------------------------------------------------------------- state
VARIABLES
    users,      \* users_col : owner id -> account document
    games,      \* games_col : place id -> campaign document
    quests,     \* quests_col: sequence of quest documents, token = index
    now,        \* datetime.utcnow(), in seconds
    inflight,   \* requests suspended between two store operations
    last,       \* the request that completed in the last step, and its result
    audit       \* per quest: inventory debits and payouts so far

vars == <<users, games, quests, now, inflight, last, audit>>

\* A missing document is a record with present = FALSE.  granted is not a
\* field of the document: it sums the promotional credit ever added to it.
NoUser == [present |-> FALSE, balance |-> 0, has_test |-> FALSE, test_balance |-> 0,
           granted |-> 0]

\* users_col.insert_one / $setOnInsert {"balance": 0, "test_balance": 500}
NewUser == [present |-> TRUE, balance |-> 0, has_test |-> TRUE,
            test_balance |-> STARTING_TEST_BALANCE, granted |-> STARTING_TEST_BALANCE]

\* {"$set": {"test_balance": 500}} on an existing document
SetTestBalance(u) ==
    [u EXCEPT !.has_test = TRUE,
              !.test_balance = STARTING_TEST_BALANCE,
              !.granted = @ + STARTING_TEST_BALANCE
                            - (IF u.has_test THEN u.test_balance ELSE 0)]

\* {"$inc": {"balance": n}}, upsert=True : creates {"balance": n} when absent
IncBalance(u, n) ==
    IF u.present THEN [u EXCEPT !.balance = @ + n]
    ELSE [NoUser EXCEPT !.present = TRUE, !.balance = n]

\* configured = the document carries the fields register_game $sets; a shell
\* document auto-registered by check_traffic carries ownerId, name and status only.
NoGame == [present |-> FALSE, configured |-> FALSE, ownerId |-> NoOwner,
           tier |-> 0, visit_cost |-> 0, time_required |-> 0, payout_amount |-> 0,
           quest_type |-> "time", status |-> "none",
           remaining_visits |-> 0, last_refill_at |-> NoTime]

\* game.get("tier", 1), game.get("visit_cost", 8)
GameTier(g) == IF g.configured THEN g.tier ELSE DEFAULT_TIER
GameCost(g) == IF g.configured THEN g.visit_cost ELSE DEFAULT_VISIT_COST

\* found: for register_game, whether its metadata lookup returned data
NoCall == [op |-> "none", ok |-> FALSE, owner |-> 0, place |-> 0, amount |-> 0,
           found |-> FALSE]

Call(op, ok) == [NoCall EXCEPT !.op = op, !.ok = ok]

\* expired: the quest was once a started quest older than the 24h of verify_token
NoAudit == [debits |-> 0, payouts |-> 0, expired |-> FALSE]

QuestIds == 1..Len(quests)

\* A request suspended between two store operations, with the locals it holds.
Slots == 1..MaxInflight

Idle == [op |-> "idle", token |-> 0, owner |-> 0, place |-> 0, amount |-> 0,
         pay_t |-> 0, pay_r |-> 0, payout |-> 0, delta |-> 0, quest_time |-> 0,
         tier_val |-> 0, seen_valid |-> FALSE, seen_user |-> FALSE]

FreeSlot(s) == inflight[s].op = "idle" /\ \A r \in Slots : r < s => inflight[r].op # "idle"

\* ------------------------------------------------- external metadata lookup
\* fetch_roblox_game_data: None on any failure, else owner, visit count, name.
NoData == [found |-> FALSE, ownerId |-> NoOwner, visits |-> 0]

Lookups == {NoData} \cup
    {[found |-> TRUE, ownerId |-> 2, visits |-> v] : v \in {0, 1000}}

\* get_roblox_visits: d["visits"] if d else 0
get_roblox_visits(d) == IF d.found THEN d.visits ELSE 0

\* ------------------------------------------------------------------ Init
Init ==
    /\ users = [o \in Owners |-> NoUser]
    /\ games = [p \in Places |-> NoGame]
    /\ quests = <<>>
    /\ now = 0
    /\ inflight = [s \in Slots |-> Idle]
    /\ last = NoCall
    /\ audit = <<>>

\* ------------------------------------------------------------ the ledger
\* get_dashboard: first-touch account creation and promotional grant.
get_dashboard(ownerId, placeId) ==
    /\ users' = [users EXCEPT ![ownerId] =
                    IF ~users[ownerId].present THEN NewUser
                    ELSE IF ~users[ownerId].has_test
                         THEN SetTestBalance(@)
                         ELSE @]
    /\ last' = NoCall
    /\ UNCHANGED <<games, quests, now, inflight, audit>>

\* get_dashboard in the thread pool: the read of line 171 and the tests of
\* lines 172 and 176 on the document read ...
DashBegin(ownerId, s) ==
    /\ FreeSlot(s)
    /\ inflight' = IF users[ownerId].present /\ users[ownerId].has_test
                   THEN inflight
                   ELSE [inflight EXCEPT ![s] =
                            [Idle EXCEPT !.op = "get_dashboard", !.owner = ownerId,
                                         !.seen_user = users[ownerId].present]]
    /\ last' = NoCall
    /\ UNCHANGED <<users, games, quests, now, audit>>

\* ... and, any number of other requests later, the insert_one of line 173
\* (refused by the store when the _id exists by then) or the $set of line 177.
DashWrite(s) ==
    LET r == inflight[s] IN
    /\ r.op = "get_dashboard"
    /\ users' = [users EXCEPT ![r.owner] =
                    IF ~r.seen_user
                    THEN (IF @.present THEN @ ELSE NewUser)
                    ELSE SetTestBalance(@)]
    /\ inflight' = [inflight EXCEPT ![s] = Idle]
    /\ last' = NoCall
    /\ UNCHANGED <<games, quests, now, audit>>

\* admin add-balance: {"$inc": {"balance": amount}}, upsert=True
add_balance(owner_id, amount) ==
    /\ users' = [users EXCEPT ![owner_id] = IncBalance(@, amount)]
    /\ last' = NoCall
    /\ UNCHANGED <<games, quests, now, inflight, audit>>

\* ---------------------------------------------------------- the registry
\* final_time = max(data.time_required, tier_info["time"])
FinalTimeNoClamp(time_required, tier) == time_required

FinalTime(time_required, tier) == Max(time_required, TierInfo(tier).time)

\* status resolution of register_game (lines 222-227)
RegisterStatus(old_game, d) ==
    IF old_game.present /\ old_game.status = "active" THEN "active"
    ELSE IF get_roblox_visits(d) >= AUTO_APPROVE_VISITS THEN "active"
    ELSE "pending"

\* "$setOnInsert": {"remaining_visits": 0}: written only when the upsert inserts
RegisterVisitsReset(old) == 0

RegisterVisits(old) == IF old.present THEN old.remaining_visits ELSE 0

\* the games_col.update_one of lines 233-247 (upsert), applied to document old
RegisterDoc(old, ownerId, tier, quest_type, time_required, d, t) ==
    [old EXCEPT !.present = TRUE,
                !.configured = TRUE,
                !.ownerId = ownerId,
                !.tier = tier,
                !.visit_cost = TierInfo(tier).cost,
                !.time_required = FinalTime(time_required, tier),
                !.payout_amount = TierInfo(tier).payout,
                !.quest_type = quest_type,
                !.status = RegisterStatus(old, d),
                !.remaining_visits = RegisterVisits(old),
                !.last_refill_at = IF old.present THEN @ ELSE t]

register_game(ownerId, placeId, tier, quest_type, time_required, d) ==
    /\ users' = [users EXCEPT ![ownerId] = IF @.present THEN @ ELSE NewUser]
    /\ games' = [games EXCEPT ![placeId] =
            RegisterDoc(@, ownerId, tier, quest_type, time_required, d, now)]
    /\ last' = [Call("register_game", TRUE) EXCEPT
                    !.owner = ownerId, !.place = placeId, !.found = d.found]
    /\ UNCHANGED <<quests, now, inflight, audit>>

\* admin decide-game: update_one on the place id, no upsert
decide_game(placeId, action) ==
    /\ games' = [games EXCEPT ![placeId] =
            IF @.present
            THEN [@ EXCEPT !.status = IF action = "approve" THEN "active" ELSE "rejected"]
            ELSE @]
    /\ last' = NoCall
    /\ UNCHANGED <<users, quests, now, inflight, audit>>

\* buy_visits lines 252-263: what the handler decides from the documents it read.
PayTestRealFirst(t_bal, total) == 0

PayTest(t_bal, total) == Min(t_bal, total)

\* line 263: if r_bal < pay_r: return {"success": False}
UnaffordableNever(r_bal, pay_r) == FALSE

Unaffordable(r_bal, pay_r) == r_bal < pay_r

BuyDecision(game, user, amount) ==
    LET total == amount * GameCost(game)
        t_bal == IF user.has_test THEN user.test_balance ELSE 0
        r_bal == user.balance
        pay_t == PayTest(t_bal, total)
        pay_r == total - pay_t
    IN  [ok |-> /\ game.present /\ game.status = "active"
                /\ user.present
                /\ ~Unaffordable(r_bal, pay_r),
         pay_t |-> pay_t, pay_r |-> pay_r]

\* buy_visits lines 265-274: the three $inc/$set updates, on the stored documents.
BuyUpdates(ownerId, placeId, amount, pay_t, pay_r) ==
    /\ users' = [users EXCEPT ![ownerId] =
            [@ EXCEPT !.has_test = IF pay_t > 0 THEN TRUE ELSE @,
                      !.test_balance = IF pay_t > 0 THEN @ - pay_t ELSE @,
                      !.balance = IF pay_r > 0 THEN @ - pay_r ELSE @]]
    /\ games' = [games EXCEPT ![placeId] =
            [@ EXCEPT !.remaining_visits = @ + amount, !.last_refill_at = now]]

\* buy_visits, run without another request in between.
buy_visits(ownerId, placeId, amount) ==
    LET dec == BuyDecision(games[placeId], users[ownerId], amount) IN
    /\ IF dec.ok
       THEN BuyUpdates(ownerId, placeId, amount, dec.pay_t, dec.pay_r)
       ELSE UNCHANGED <<users, games>>
    /\ last' = [Call("buy_visits", dec.ok) EXCEPT
                    !.owner = ownerId, !.place = placeId, !.amount = amount]
    /\ UNCHANGED <<quests, now, inflight, audit>>

\* buy_visits in the thread pool: the reads of lines 252-263 ...
BuyBegin(ownerId, placeId, amount, s) ==
    LET dec == BuyDecision(games[placeId], users[ownerId], amount) IN
    /\ FreeSlot(s)
    /\ IF dec.ok
       THEN /\ inflight' = [inflight EXCEPT ![s] =
                    [Idle EXCEPT !.op = "buy_visits", !.owner = ownerId,
                                 !.place = placeId, !.amount = amount,
                                 !.pay_t = dec.pay_t, !.pay_r = dec.pay_r]]
            /\ last' = NoCall
       ELSE /\ inflight' = inflight
            /\ last' = [Call("buy_visits", FALSE) EXCEPT
                            !.owner = ownerId, !.place = placeId, !.amount = amount]
    /\ UNCHANGED <<users, games, quests, now, audit>>

\* ... and, any number of other requests later, the updates of lines 265-274
BuyWrite(s) ==
    LET r == inflight[s] IN
    /\ r.op = "buy_visits"
    /\ BuyUpdates(r.owner, r.place, r.amount, r.pay_t, r.pay_r)
    /\ inflight' = [inflight EXCEPT ![s] = Idle]
    /\ last' = [Call("buy_visits", TRUE) EXCEPT
                    !.owner = r.owner, !.place = r.place, !.amount = r.amount]
    /\ UNCHANGED <<quests, now, audit>>

\* ------------------------------------------------ the quest state machine
NewQuest(player_id, source, target) ==
    [player_id |-> player_id, source_game |-> source, target_game |-> target,
     status |-> "started", traffic_valid |-> FALSE, payout_processed |-> FALSE,
     timestamp |-> now, arrived_at |-> NoTime, completed_tier |-> 0]

\* quests_col.find_one({player_id, target_game, status: "started"}): first match or 0
OpenStatuses == {"started"}

ExistingQuest(player_id, target) ==
    LET m == {q \in QuestIds : /\ quests[q].player_id = player_id
                               /\ quests[q].target_game = target
                               /\ quests[q].status \in OpenStatuses}
    IN  IF m = {} THEN 0 ELSE CHOOSE q \in m : \A r \in m : q <= r

\* start_quest lines 318-320: the checks on the target campaign
StartAllowed(game) == game.present /\ ~(game.remaining_visits <= 0)

\* start_quest lines 328-345: refresh the quest found, or insert a new one
StartUpdates(player_id, target, source, existing) ==
    IF existing # 0
    THEN /\ quests' = [quests EXCEPT ![existing] =
                [@ EXCEPT !.timestamp = now, !.source_game = source]]
         /\ audit' = audit
         /\ last' = NoCall
    ELSE /\ Len(quests) < MaxQuests
         /\ quests' = Append(quests, NewQuest(player_id, source, target))
         /\ audit' = Append(audit, NoAudit)
         /\ last' = NoCall

\* start_quest, run without another request in between.
start_quest(player_id, target, source) ==
    /\ IF StartAllowed(games[target])
       THEN StartUpdates(player_id, target, source, ExistingQuest(player_id, target))
       ELSE /\ last' = NoCall
            /\ UNCHANGED <<quests, audit>>
    /\ UNCHANGED <<users, games, now, inflight>>

\* verify_token.  The update of line 372 is applied before line 373 reads
\* tier_info["time"], so it is applied also when TIER_CONFIG.get(tier) is None.
verify_token(token) ==
    LET quest == quests[token]
        game == games[quest.target_game]
        expired == now - quest.timestamp > TTL_SECONDS
        fresh == /\ quest.status = "arrived"
                 /\ quest.arrived_at # NoTime
                 /\ now - quest.arrived_at < ARRIVAL_GRACE
    IN
    /\ token \in QuestIds
    /\ IF expired \/ ~game.present \/ fresh \/ quest.status # "started"
       THEN /\ quests' = quests
            /\ last' = NoCall
       ELSE /\ quests' = [quests EXCEPT ![token] =
                    [@ EXCEPT !.status = "arrived", !.arrived_at = now]]
            /\ last' = NoCall
    /\ UNCHANGED <<users, games, now, inflight, audit>>

\* check_traffic lines 384-396: tier_time, the dwell time of the campaign's tier
DwellTimeLongest(game) == TIER_CONFIG[3].time

DwellTime(game) == TierInfo(GameTier(game)).time

\* check_traffic line 398: the payout step is due
PayoutDueNoGuard(quest, game, delta) == delta >= DwellTime(game)

PayoutDue(quest, game, delta) ==
    delta >= DwellTime(game) /\ ~quest.payout_processed

\* check_traffic lines 422-428, on the values the handler read at lines 378-396
ValidateStrict(qs, token, seen_valid, delta, quest_time, tier_val) ==
    IF delta > quest_time /\ ~seen_valid
    THEN [qs EXCEPT ![token] = [@ EXCEPT !.traffic_valid = TRUE,
                                         !.completed_tier = tier_val,
                                         !.status = "completed"]]
    ELSE qs

Validate(qs, token, seen_valid, delta, quest_time, tier_val) ==
    IF delta >= quest_time /\ ~seen_valid
    THEN [qs EXCEPT ![token] = [@ EXCEPT !.traffic_valid = TRUE,
                                         !.completed_tier = tier_val,
                                         !.status = "completed"]]
    ELSE qs

\* check_traffic up to its return, or up to the await of line 410
CheckTrafficBegin(token, s) ==
    LET quest == quests[token]
        game == games[quest.target_game]
        tier_val == GameTier(game)
        delta == now - quest.arrived_at
        due == PayoutDue(quest, game, delta)
        src == games[quest.source_game]
        owner_pay == IF src.present THEN src.ownerId ELSE NoOwner
        paid == [quests EXCEPT ![token] = [@ EXCEPT !.payout_processed = TRUE]]
    IN
    /\ token \in QuestIds
    /\ IF quest.arrived_at = NoTime \/ ~game.present \/ ~game.configured
       THEN /\ last' = NoCall
            /\ UNCHANGED <<users, games, quests, inflight, audit>>
       ELSE /\ games' = IF due
                        THEN [games EXCEPT ![quest.target_game] =
                                [@ EXCEPT !.remaining_visits = @ - 1]]
                        ELSE games
            /\ IF due /\ owner_pay = NoOwner
               THEN /\ FreeSlot(s)
                    /\ inflight' = [inflight EXCEPT ![s] =
                            [Idle EXCEPT !.op = "check_traffic", !.token = token,
                                         !.place = quest.source_game,
                                         !.payout = TierInfo(tier_val).payout,
                                         !.delta = delta,
                                         !.quest_time = game.time_required,
                                         !.tier_val = tier_val,
                                         !.seen_valid = quest.traffic_valid]]
                    /\ quests' = paid
                    /\ users' = users
                    /\ audit' = [audit EXCEPT ![token] = [@ EXCEPT !.debits = @ + 1]]
                    /\ last' = NoCall
               ELSE /\ users' = IF due
                                THEN [users EXCEPT ![owner_pay] =
                                        IncBalance(@, TierInfo(tier_val).payout)]
                                ELSE users
                    /\ quests' = Validate(IF due THEN paid ELSE quests, token,
                                          quest.traffic_valid, delta,
                                          game.time_required, tier_val)
                    /\ audit' = IF due
                                THEN [audit EXCEPT ![token] =
                                        [@ EXCEPT !.debits = @ + 1, !.payouts = @ + 1]]
                                ELSE audit
                    /\ last' = NoCall
                    /\ inflight' = inflight
    /\ UNCHANGED now

\* check_traffic from the result d of the awaited lookup (lines 411-428)
CheckTrafficResume(s, d) ==
    LET r == inflight[s]
        owner_pay == IF d.found THEN d.ownerId ELSE NoOwner
    IN
    /\ r.op = "check_traffic"
    /\ games' = IF d.found /\ ~games[r.place].present
                THEN [games EXCEPT ![r.place] =
                        [NoGame EXCEPT !.present = TRUE, !.ownerId = owner_pay,
                                       !.status = "inactive"]]
                ELSE games
    /\ users' = IF owner_pay # NoOwner
                THEN [users EXCEPT ![owner_pay] = IncBalance(@, r.payout)]
                ELSE users
    /\ quests' = Validate(quests, r.token, r.seen_valid, r.delta, r.quest_time, r.tier_val)
    /\ audit' = IF owner_pay # NoOwner
                THEN [audit EXCEPT ![r.token] = [@ EXCEPT !.payouts = @ + 1]]
                ELSE audit
    /\ inflight' = [inflight EXCEPT ![s] = Idle]
    /\ last' = NoCall
    /\ UNCHANGED now

\* complete_task line 436: the guard on the quest read
CompleteAllowedAlways(quest) == TRUE

CompleteAllowed(quest) == quest.traffic_valid

\* complete_task: the status is written whatever the quest's current status is
complete_task(token) ==
    LET quest == quests[token] IN
    /\ token \in QuestIds
    /\ IF CompleteAllowed(quest)
       THEN /\ quests' = [quests EXCEPT ![token] =
                    [@ EXCEPT !.status = "completed",
                              !.completed_tier = GameTier(games[quest.target_game])]]
            /\ last' = NoCall
       ELSE /\ quests' = quests
            /\ last' = NoCall
    /\ UNCHANGED <<users, games, now, inflight, audit>>

\* claim_rewards line 444: the quests the call returns
Pending(player_id, current_place_id) ==
    {q \in QuestIds : /\ quests[q].player_id = player_id
                      /\ quests[q].status = "completed"
                      /\ quests[q].source_game = current_place_id}

claim_rewards(player_id, current_place_id) ==
    LET pending == Pending(player_id, current_place_id) IN
    /\ quests' = [q \in QuestIds |->
                    IF q \in pending THEN [quests[q] EXCEPT !.status = "claimed"]
                    ELSE quests[q]]
    /\ last' = NoCall
    /\ UNCHANGED <<users, games, now, inflight, audit>>

\* ------------------------------------------------- the eligibility filter
\* get_quests lines 280-292: the player's newest quest of the last 24h per
\* target; of several quests with the same timestamp the first found is kept.
UserState(playerId, pid) ==
    LET mine == {q \in QuestIds : /\ quests[q].player_id = playerId
                                  /\ quests[q].timestamp >= now - TTL_SECONDS
                                  /\ quests[q].target_game = pid}
    IN  IF mine = {} THEN 0
        ELSE CHOOSE q \in mine :
                \A r \in mine : \/ quests[r].timestamp < quests[q].timestamp
                                \/ (quests[r].timestamp = quests[q].timestamp /\ q <= r)

\* get_quests lines 297-312: is the campaign appended to final_list
Offered(playerId, pid) ==
    LET game == games[pid]
        q == UserState(playerId, pid)
    IN  /\ game.present /\ game.status = "active"
        /\ IF q # 0 /\ quests[q].status \in {"started", "arrived"} THEN TRUE
           ELSE IF q # 0 /\ quests[q].status \in {"completed", "claimed"}
                THEN game.last_refill_at # NoTime /\ quests[q].timestamp < game.last_refill_at
                ELSE game.remaining_visits > 0

get_quests(playerId) == {pid \in Places : Offered(playerId, pid)}

\* ----------------------------------------------------------------- time
\* The clock advances in steps of the shortest dwell time.
TickStep == TIER_CONFIG[1].time

Tick ==
    /\ now + TickStep <= MaxNow
    /\ now' = now + TickStep
    /\ last' = NoCall
    /\ UNCHANGED <<users, games, quests, inflight, audit>>

\* Time keeps advancing: the clock is not stopped at MaxNow while an arrived
\* quest has not yet stayed for the reward time of its target campaign.
Waiting(q) ==
    /\ quests[q].status = "arrived"
    /\ games[quests[q].target_game].configured
    /\ now - quests[q].arrived_at < games[quests[q].target_game].time_required

TimePasses ==
    /\ now + TickStep <= MaxNow \/ \E q \in QuestIds : Waiting(q)
    /\ now' = now + TickStep
    /\ last' = NoCall
    /\ UNCHANGED <<users, games, quests, inflight, audit>>

\* More than 24 hours pass at once: every quest still in status started is by
\* then older than the limit of verify_token line 353.
DayStep == TTL_SECONDS + TickStep

DayPasses ==
    /\ now <= MaxNow
    /\ now' = now + DayStep
    /\ audit' = [q \in QuestIds |->
                    IF quests[q].status = "started"
                       /\ now + DayStep - quests[q].timestamp > TTL_SECONDS
                    THEN [audit[q] EXCEPT !.expired = TRUE]
                    ELSE audit[q]]
    /\ last' = NoCall
    /\ UNCHANGED <<users, games, quests, inflight>>

\* ---------------------------------------------------------- specifications
\* The quest network in operation.  Owner 1 registered campaign 1 (tier 1,
\* reward time 120) and bought one visit for it, owner 2 registered campaign 2;
\* all of it at time 0.  Place 3 is a game nobody registered.  Players travel
\* from places 2 and 3 to campaign 1.
QuestInit ==
    /\ users = [o \in Owners |->
            IF o = 1
            THEN [NewUser EXCEPT !.test_balance = @ - TIER_CONFIG[1].cost]
            ELSE NewUser]
    /\ games = [p \in Places |->
            CASE p = 1 -> [RegisterDoc(NoGame, 1, 1, "time", 120, NoData, 0)
                                EXCEPT !.remaining_visits = 1]
              [] p = 2 -> RegisterDoc(NoGame, 2, 1, "time", 60, NoData, 0)
              [] OTHER -> NoGame]
    /\ quests = <<>>
    /\ now = 0
    /\ inflight = [s \in Slots |-> Idle]
    /\ last = NoCall
    /\ audit = <<>>

QuestSteps(players) ==
    \/ \E player \in players, source \in {2, 3} : start_quest(player, 1, source)
    \/ \E token \in QuestIds : verify_token(token)
    \/ \E token \in QuestIds, s \in Slots : CheckTrafficBegin(token, s)
    \/ \E s \in Slots, d \in Lookups : CheckTrafficResume(s, d)
    \/ \E token \in QuestIds : complete_task(token)
    \/ \E player \in players, place \in {2, 3} : claim_rewards(player, place)
    \/ Tick

\* One player's journeys, any number of them open at once.
QuestNext == QuestSteps({1})

SpecQuest == QuestInit /\ [][QuestNext]_vars

\* Two players, and the owner of campaign 1 refilling its inventory.
NetworkNext ==
    \/ QuestSteps(Players)
    \/ (games[1].remaining_visits < MaxVisits /\ buy_visits(1, 1, 1))

SpecNetwork == QuestInit /\ [][NetworkNext]_vars

\* One player's journeys with time advancing, every token polled again and
\* again by the game server (check_traffic), every awaited lookup returning
\* or failing (fetch_roblox_game_data catches every exception, lines 85-96),
\* and the player's rewards claimed again and again from each place.
LiveNext ==
    \/ QuestSteps({1})
    \/ TimePasses

Polling ==
    \A token \in 1..MaxQuests : WF_vars(\E s \in Slots : CheckTrafficBegin(token, s))

SpecLive ==
    /\ QuestInit
    /\ [][LiveNext]_vars
    /\ WF_vars(TimePasses)
    /\ Polling
    /\ WF_vars(\E s \in Slots, d \in Lookups : CheckTrafficResume(s, d))
    /\ \A place \in {2, 3} : WF_vars(claim_rewards(1, place))

\* One player's journeys while the owner of campaign 1 re-registers it as a
\* time or an action quest and the admin approves or rejects it.
CampaignNext ==
    \/ QuestSteps({1})
    \/ \E kind \in {"time", "action"} : register_game(1, 1, 1, kind, 120, NoData)
    \/ \E action \in {"approve", "reject"} : decide_game(1, action)

SpecCampaign == QuestInit /\ [][CampaignNext]_vars

\* One player's journeys, with a day passing at some moment.
ExpiryNext ==
    \/ QuestSteps({1})
    \/ DayPasses

SpecExpiry == QuestInit /\ [][ExpiryNext]_vars

\* The inventory of campaign 1 from its first registration on: re-registration,
\* admin decisions, purchases and one player's journeys from place 2, which
\* owner 2 registered before.
InventoryInit ==
    /\ users = [o \in Owners |-> IF o = 2 THEN NewUser ELSE NoUser]
    /\ games = [p \in Places |->
            IF p = 2 THEN RegisterDoc(NoGame, 2, 1, "time", 60, NoData, 0) ELSE NoGame]
    /\ quests = <<>>
    /\ now = 0
    /\ inflight = [s \in Slots |-> Idle]
    /\ last = NoCall
    /\ audit = <<>>

InventoryNext ==
    \/ register_game(1, 1, 1, "time", 60, NoData)
    \/ \E action \in {"approve", "reject"} : decide_game(1, action)
    \/ (games[1].remaining_visits < MaxVisits /\ buy_visits(1, 1, 1))
    \/ start_quest(1, 1, 2)
    \/ \E token \in QuestIds : verify_token(token)
    \/ \E token \in QuestIds, s \in Slots : CheckTrafficBegin(token, s)
    \/ \E token \in QuestIds : complete_task(token)
    \/ claim_rewards(1, 2)
    \/ Tick

SpecInventory == InventoryInit /\ [][InventoryNext]_vars

\* The registry and the ledger from the empty store, every handler run
\* without another request in between.
RegTiers == {1, 2, 3, 7}
RegTimes == {10, 200}
BuyAmounts == {10, 20}
Credits == {100}

RegistryNext ==
    \/ \E tier \in RegTiers, kind \in {"time", "action"}, t \in RegTimes, d \in Lookups :
            register_game(1, 1, tier, kind, t, d)
    \/ \E action \in {"approve", "reject"} : decide_game(1, action)
    \/ \E o \in Owners : get_dashboard(o, 1)
    \/ \E c \in Credits : (users[1].balance + c <= MaxBalance /\ add_balance(1, c))
    \/ \E o \in Owners, n \in BuyAmounts :
            (games[1].remaining_visits + n <= MaxStock /\ buy_visits(o, 1, n))

SpecRegistry == Init /\ [][RegistryNext]_vars

\* The ledger with purchases running in the thread pool.
RaceNext ==
    \/ \E tier \in {1, 3} : register_game(1, 1, tier, "time", 60, NoData)
    \/ \E c \in Credits : (users[1].balance + c <= MaxBalance /\ add_balance(1, c))
    \/ \E n \in BuyAmounts, s \in Slots :
            (games[1].remaining_visits + n <= MaxStock /\ BuyBegin(1, 1, n, s))
    \/ \E s \in Slots : BuyWrite(s)

SpecLedgerRace == Init /\ [][RaceNext]_vars

\* The promotional grant with dashboard views running in the thread pool:
\* owner 1's account is created by a registration, an admin credit or a
\* dashboard view, and pays for visits of campaign 1.
GrantNext ==
    \/ \E o \in Owners : register_game(o, 1, 1, "time", 60, NoData)
    \/ \E c \in Credits : (users[1].balance + c <= MaxBalance /\ add_balance(1, c))
    \/ \E n \in BuyAmounts :
            (games[1].remaining_visits + n <= MaxStock /\ buy_visits(1, 1, n))
    \/ \E s \in Slots : DashBegin(1, s)
    \/ \E s \in Slots : DashWrite(s)

SpecGrant == Init /\ [][GrantNext]_vars

\* ------------------------------------------------------------ properties
InFlight(player, pid) ==
    \E q \in QuestIds : /\ quests[q].player_id = player
                        /\ quests[q].target_game = pid
                        /\ quests[q].status \in {"started", "arrived"}

\* the promotional balance buy_visits reads: user.get("test_balance", 0)
Promo(u) == IF u.has_test THEN u.test_balance ELSE 0

\* C1: over any number and interleaving of check_traffic calls on a token, the
\* target's inventory is debited at most once and the source owner is paid at
\* most once for that quest, and payout_processed never goes back to false.
C1_PollDwellPaysOnce ==
    /\ [](\A q \in QuestIds : audit[q].debits <= 1 /\ audit[q].payouts <= 1)
    /\ [][\A q \in QuestIds :
            quests[q].payout_processed => quests'[q].payout_processed]_vars

\* C1 witness: a poll of a paid-out quest is suspended at its lookup while a
\* second poll of the same token has already validated the quest.
C1_Witness ==
    \E s \in Slots :
        /\ inflight[s].op = "check_traffic"
        /\ quests[inflight[s].token].traffic_valid
        /\ quests[inflight[s].token].payout_processed
        /\ audit[inflight[s].token].debits = 1

\* C2: a quest that claim_rewards has moved to claimed never becomes claimable
\* (completed) again, whatever operation follows.
C2_ClaimedStaysClaimed ==
    [][\A q \in QuestIds :
        quests[q].status = "claimed" => quests'[q].status = "claimed"]_vars

\* C3: a purchase of amount > 0 on an active campaign that the two balances
\* together can pay adds amount to remaining_visits, takes min(promotional,
\* total) from the promotional balance and the remainder from the real balance.
C3_PurchaseExact ==
    [][LET o == last'.owner
           p == last'.place
           n == last'.amount
           total == n * GameCost(games[p])
           t == Min(Promo(users[o]), total)
       IN  (/\ last'.op = "buy_visits"
            /\ games[p].present /\ games[p].status = "active"
            /\ n > 0
            /\ users[o].present
            /\ Promo(users[o]) + users[o].balance >= total)
           => /\ games'[p].remaining_visits = games[p].remaining_visits + n
              /\ Promo(users'[o]) = Promo(users[o]) - t
              /\ users'[o].balance = users[o].balance - (total - t)
              /\ Promo(users'[o]) + users'[o].balance
                    = Promo(users[o]) + users[o].balance - total]_vars

\* C3 witness: a purchase of 20 tier-3 visits has just been paid with the whole
\* promotional balance and 100 real credits.
C3_Witness ==
    /\ last.op = "buy_visits" /\ last.ok /\ last.amount = 20
    /\ games[1].visit_cost = 30
    /\ users[last.owner].has_test /\ users[last.owner].test_balance = 0
    /\ users[last.owner].balance = 0
    /\ games[1].remaining_visits >= 20

\* C4: both balances of every account are >= 0 in every reachable state.
C4_BalancesNonNegative ==
    \A o \in Owners : users[o].balance >= 0 /\ Promo(users[o]) >= 0

\* C5: every campaign's remaining_visits is >= 0 in every reachable state.
C5_InventoryNonNegative ==
    \A p \in Places : games[p].remaining_visits >= 0

\* C6: a quest becomes claimed only from completed, becomes completed only with
\* traffic_valid true, and is never completed or claimed with traffic_valid false.
C6_LifecycleOrder ==
    /\ [](\A q \in QuestIds :
            quests[q].status \in {"completed", "claimed"} => quests[q].traffic_valid)
    /\ [][\A q \in QuestIds :
            /\ (quests'[q].status = "claimed" /\ quests[q].status # "claimed")
                    => quests[q].status = "completed"
            /\ (quests'[q].status = "completed" /\ quests[q].status # "completed")
                    => quests'[q].traffic_valid]_vars

\* C6 witness: a quest has been claimed.
C6_Witness ==
    \E q \in QuestIds : quests[q].status = "claimed" /\ quests[q].traffic_valid

\* C7: at most one quest in an open status (started or arrived) per
\* (player, target campaign) pair.
C7_OneOpenQuestPerPair ==
    \A q1, q2 \in QuestIds :
        (/\ quests[q1].player_id = quests[q2].player_id
         /\ quests[q1].target_game = quests[q2].target_game
         /\ quests[q1].status \in {"started", "arrived"}
         /\ quests[q2].status \in {"started", "arrived"}) => q1 = q2

\* C8: get_quests never offers a campaign with remaining_visits <= 0 to a
\* player who has no started or arrived quest against it.
C8_NoOfferWithoutInventory ==
    \A player \in Players, pid \in Places :
        (games[pid].remaining_visits <= 0 /\ ~InFlight(player, pid))
            => pid \notin get_quests(player)

\* C9: get_quests always offers a campaign to a player who has a started or
\* arrived quest against it.
C9_InFlightAlwaysOffered ==
    \A player \in Players, pid \in Places :
        InFlight(player, pid) => pid \in get_quests(player)

\* C10: every registered campaign's reward time is at least the dwell time
\* check_traffic uses for it; requesting 10 at tier 2 yields 180.
C10_RewardTimeAtLeastDwell ==
    /\ \A p \in Places :
            games[p].configured => games[p].time_required >= DwellTime(games[p])
    /\ \A p \in Places :
            (games[p].configured /\ games[p].tier = 2 /\ games[p].time_required < 200)
                => games[p].time_required = 180

\* C10 witness: a campaign registered at tier 2 with a requested time of 10,
\* and inventory bought for it.
C10_Witness ==
    /\ games[1].configured /\ games[1].tier = 2
    /\ games[1].time_required = 180
    /\ games[1].remaining_visits > 0

\* C11: a register_game call whose metadata lookup returned no data, on a
\* campaign that is not already active, leaves the campaign pending, not active.
C11_LookupFailurePending ==
    [][\A p \in Places :
        (/\ last'.op = "register_game" /\ last'.place = p /\ ~last'.found
         /\ ~(games[p].present /\ games[p].status = "active"))
            => (last'.ok /\ games'[p].status = "pending")]_vars

\* C14: a buy_visits call on a missing or not active campaign, for a missing
\* account, or that the two balances together cannot pay, reports failure and
\* leaves every account and every campaign document as it was.
C14_FailedPurchaseNoMutation ==
    [][LET o == last'.owner
           p == last'.place
           total == last'.amount * GameCost(games[p])
       IN  (/\ last'.op = "buy_visits"
            /\ \/ ~games[p].present
               \/ games[p].status # "active"
               \/ ~users[o].present
               \/ Promo(users[o]) + users[o].balance < total)
           => (~last'.ok /\ users' = users /\ games' = games)]_vars

\* C14 witness: a purchase on an active campaign by an existing account has
\* just been refused because the two balances together are short of the price.
C14_Witness ==
    /\ last.op = "buy_visits" /\ ~last.ok
    /\ games[last.place].present /\ games[last.place].status = "active"
    /\ users[last.owner].present
    /\ Promo(users[last.owner]) > 0
    /\ Promo(users[last.owner]) + users[last.owner].balance
            < last.amount * GameCost(games[last.place])
    /\ games[last.place].remaining_visits > 0

\* C19: every registered campaign's tier is a key of the tier table, and its
\* stored cost and payout are those of that tier.
C19_TierInTable ==
    \A p \in Places :
        games[p].configured =>
            /\ games[p].tier \in DOMAIN TIER_CONFIG
            /\ games[p].visit_cost = TIER_CONFIG[games[p].tier].cost
            /\ games[p].payout_amount = TIER_CONFIG[games[p].tier].payout

\* C12: while a campaign is missing, not active or out of inventory, no quest
\* against it is inserted and none has its timestamp or source refreshed.
C12_StartOnlyOnActive ==
    [][\A p \in Places :
        ~(games[p].present /\ games[p].status = "active"
                           /\ games[p].remaining_visits > 0)
            => /\ \A q \in QuestIds :
                    quests[q].target_game = p
                        => /\ quests'[q].timestamp = quests[q].timestamp
                           /\ quests'[q].source_game = quests[q].source_game
               /\ Len(quests') > Len(quests)
                    => quests'[Len(quests')].target_game # p]_vars

\* C13: the step that sets traffic_valid on a quest whose target campaign is an
\* action quest leaves the quest's status at arrived.
C13_ActionQuestStaysArrived ==
    [][\A q \in QuestIds :
        (/\ games[quests[q].target_game].quest_type = "action"
         /\ ~quests[q].traffic_valid
         /\ quests'[q].traffic_valid)
            => quests'[q].status = "arrived"]_vars

\* C16: in the step that completes a player's most recent quest against a
\* campaign, no refill can have happened after the completion yet, so the
\* campaign is not offered to that player in the state the step leads to.
C16_NoReofferWithoutLaterRefill ==
    [][\A player \in Players, pid \in Places :
        LET q == UserState(player, pid) IN
        (/\ q # 0
         /\ UserState(player, pid)' = q
         /\ quests[q].status = "arrived"
         /\ quests'[q].status = "completed")
            => ~Offered(player, pid)']_vars

\* C17: a quest that was once a started quest older than 24h stays in status
\* started for ever.
C17_ExpiredStaysStarted ==
    \A q \in QuestIds : audit[q].expired => quests[q].status = "started"

\* C18: a campaign's remaining_visits changes only by -1 in a step that sets a
\* quest's payout_processed, or by +amount in a successful purchase of that
\* campaign; a first registration sets it to 0.
C18_InventoryFrame ==
    [][\A p \in Places :
        /\ (~games[p].present /\ games'[p].configured)
                => games'[p].remaining_visits = 0
        /\ games'[p].remaining_visits # games[p].remaining_visits
                => \/ /\ games'[p].remaining_visits = games[p].remaining_visits - 1
                      /\ \E q \in QuestIds : /\ quests[q].target_game = p
                                             /\ ~quests[q].payout_processed
                                             /\ quests'[q].payout_processed
                   \/ /\ last'.op = "buy_visits" /\ last'.ok /\ last'.place = p
                      /\ games'[p].remaining_visits
                            = games[p].remaining_visits + last'.amount]_vars

\* C18 witness: campaign 1 has just been re-registered while holding one visit,
\* after a purchase of two and the payout step of a quest.
C18_Witness ==
    /\ last.op = "register_game" /\ last.place = 1
    /\ games[1].remaining_visits = 1
    /\ \E q \in QuestIds : quests[q].target_game = 1 /\ quests[q].payout_processed

\* C20: a quest with traffic_valid true has payout_processed true, and exactly
\* one unit of its target's inventory was debited for it.
C20_ValidatedImpliesDebited ==
    \A q \in QuestIds :
        quests[q].traffic_valid
            => quests[q].payout_processed /\ audit[q].debits = 1

\* C20 witness: a quest was validated and completed although the lookup of its
\* source owner failed: the inventory unit is consumed, nobody was paid.
C20_Witness ==
    \E q \in QuestIds :
        /\ quests[q].traffic_valid /\ quests[q].status = "completed"
        /\ quests[q].payout_processed
        /\ audit[q].debits = 1 /\ audit[q].payouts = 0

\* C15: the promotional credit ever added to one owner's account sums to at
\* most the initial grant.
C15_GrantAtMostOnce ==
    \A o \in Owners : users[o].granted <= STARTING_TEST_BALANCE

\* C21: with time advancing and check_traffic called again and again on its
\* token, an arrived quest against a time campaign eventually is completed,
\* and with claim_rewards called again and again by its player from its source
\* place a completed quest eventually is claimed.
C21_TimeQuestCompletes ==
    \A q \in 1..MaxQuests :
        /\ (/\ q \in QuestIds
            /\ quests[q].status = "arrived"
            /\ games[quests[q].target_game].quest_type = "time")
                ~> (q \in QuestIds /\ quests[q].status \in {"completed", "claimed"})
        /\ (q \in QuestIds /\ quests[q].status = "completed")
                ~> (q \in QuestIds /\ quests[q].status = "claimed")

\* C21 witness: a quest that arrived when the clock had already passed MaxNow
\* minus its reward time has been completed by a poll and claimed.
C21_Witness ==
    \E q \in QuestIds :
        /\ quests[q].status = "claimed"
        /\ games[quests[q].target_game].quest_type = "time"
        /\ quests[q].arrived_at + games[quests[q].target_game].time_required > MaxNow
        /\ now - quests[q].arrived_at >= games[quests[q].target_game].time_required

====
